---------------------------- MODULE Spec2Model ----------------------------
(***************************************************************************)
(* State-machine model of the claudy session server                        *)
(* (src/claudy/mcp_server.py).                                             *)
(*                                                                         *)
(* The server is one asyncio event loop.  Code between two awaits runs     *)
(* without interleaving, so every action below is one such segment of a    *)
(* coroutine: from the point where it is resumed to its next await (or its *)
(* return).  The agent SDK (connect / query / receive_response /           *)
(* disconnect) is external: each awaited SDK call either returns or        *)
(* raises, and that choice is the environment's.                           *)
(*                                                                         *)
(* Objects with identity: task slot t stands for the t-th coroutine        *)
(* running _execute_call; the ClaudeSDKClient built by that coroutine      *)
(* (line 158) and the metadata dict built with it (line 161) are both      *)
(* identified by t as well.                                                *)
(***************************************************************************)
EXTENDS Integers, Sequences, FiniteSets, TLC

\* ------------------------------------------------------------ constants

SESSION_IDLE_TIMEOUT == 7200
SESSION_CLEANUP_INTERVAL == 300
\* run_stdio_proxy's locals of lines 139-140 (retry_delay: its first value).
max_retries == 5
retry_delay == 1

\* ------------------------------------------------------------ bounds

\* Coroutines running _execute_call (claudy_call and claudy_call_async together).
MaxTasks == 2
\* Advances of the wall clock.
MaxTicks == 1
\* claudy_get_results invocations.
MaxCollectors == 2
\* claudy_cleanup invocations.
MaxCleanups == 1
\* Non-empty lines the bridge reads from stdin before the end of input.
MaxLines == 2

TaskIds == 1..MaxTasks
CollIds == 1..MaxCollectors
CleanIds == 1..MaxCleanups

\* ------------------------------------------------------------ value sets

\* Python's None, for string-valued slots.
None == "none"
\* Session names are tuples so that generated fork names are names too.
NoName == <<>>
Names == {<<"a">>, <<"b">>}
\* Session ids the agent SDK reports in its response events.
RemoteIds == {"s1", "s2"}
\* What get_current_claude_session_id can return: None or the newest file's stem.
DetectedIds == {None, "cur"}
\* What a caller may pass as parent_session_id.
ParentInputs == {None, "px"}
\* Clock advances, in seconds.
TickSteps == {SESSION_CLEANUP_INTERVAL, SESSION_IDLE_TIMEOUT,
              SESSION_IDLE_TIMEOUT + SESSION_CLEANUP_INTERVAL}
\* timeout arguments of claudy_get_results: None is -1, then 0 and a positive one.
NoTimeout == 0 - 1
Timeouts == {NoTimeout, 0, 30}

VARIABLES
    now,        \* datetime.now(), in seconds
    ticks,      \* clock advances so far
    sessions,   \* _global_sessions: insertion-ordered sequence of [name, cid]
    meta,       \* the metadata dicts, by identity
    conn,       \* the ClaudeSDKClient objects, by identity: their connection state
    tasks,      \* the _execute_call coroutines
    bg,         \* _background_tasks: name -> task (0: no key)
    coll,       \* the claudy_get_results coroutines
    reaper,     \* the cleanup_idle_sessions coroutine
    clean,      \* the claudy_cleanup coroutines
    status,     \* the tasks_status dict of the last claudy_check_status reply
    bridge      \* the run_stdio_proxy coroutine, with what it has read and written

vars == <<now, ticks, sessions, meta, conn, tasks, bg, coll, reaper, clean, status,
          bridge>>

\* ------------------------------------------------------------ timestamps

\* datetime.isoformat / datetime.fromisoformat: the stored form is a string that
\* carries the instant to the microsecond; parsing gives the instant back.
isoformat(t) == <<"iso", t>>
fromisoformat(s) == s[2]

\* strftime('%Y%m%d_%H%M%S'): the clock is in whole seconds.
strftime(t) == t

\* ------------------------------------------------------------ the registry dict

HasSession(name) == \E i \in DOMAIN sessions : sessions[i].name = name

\* _global_sessions[name] (the client/metadata pair's identity).
SessionOf(name) == (CHOOSE i \in DOMAIN sessions : sessions[i].name = name)

CidOf(name) == sessions[SessionOf(name)].cid

SessionNames == {sessions[i].name : i \in DOMAIN sessions}

\* _global_sessions[name] = (client, metadata): a present key keeps its place.
PutSession(reg, name, cid) ==
    IF \E i \in DOMAIN reg : reg[i].name = name
    THEN [i \in DOMAIN reg |-> IF reg[i].name = name
                               THEN [name |-> name, cid |-> cid] ELSE reg[i]]
    ELSE Append(reg, [name |-> name, cid |-> cid])

\* del _global_sessions[name], for a present key.
DelSession(reg, name) == SelectSeq(reg, LAMBDA e : e.name # name)

\* ------------------------------------------------------------ records

NoMeta == [created_at |-> isoformat(0), last_used |-> isoformat(0),
           message_count |-> 0 - 1, session_id |-> None,
           auto_created |-> FALSE, parent_session_id |-> "absent"]

\* A get_or_create_session that forgets lines 168-169.
NewMetaWithoutParent(t, parent) ==
    [created_at |-> isoformat(t), last_used |-> isoformat(t),
     message_count |-> 0, session_id |-> None, auto_created |-> TRUE,
     parent_session_id |-> "absent"]

\* The metadata dict of lines 161-169.
NewMeta(t, parent) ==
    [created_at |-> isoformat(t), last_used |-> isoformat(t),
     message_count |-> 0, session_id |-> None, auto_created |-> TRUE,
     parent_session_id |-> IF parent # None THEN parent ELSE "absent"]

NoResult == [success |-> FALSE, tag |-> "none", name |-> NoName, session_id |-> None]

\* The error dicts of lines 192-195, 201-204, 212-215, told apart by their message.
ErrorResult(tag) == [success |-> FALSE, tag |-> tag, name |-> NoName, session_id |-> None]

\* The result dict of lines 278-285.
SuccessResult(name, session_id) ==
    [success |-> TRUE, tag |-> "ok", name |-> name, session_id |-> session_id]

FreeTask == [st |-> "free", kind |-> "none", src |-> NoName, name |-> NoName,
             fork |-> FALSE, parent |-> None, cid |-> 0, sid |-> None,
             result |-> NoResult]

\* A coroutine that is suspended at an await of the SDK.
Pending == {"scheduled", "connecting", "querying", "streaming", "cancelling"}
\* asyncio.Task.done().
Finished == {"done", "raised", "cancelled"}

FreeTasks == {t \in TaskIds : tasks[t].st = "free"}

\* The next coroutine object.
NewTask == CHOOSE t \in FreeTasks : \A u \in FreeTasks : t <= u


\* The empty results dict of line 423.
NoResults == [n \in {} |-> NoResult]

\* No task awaited yet.
NoWaits == [n \in {} |-> 0]

\* A claudy_get_results coroutine: its arguments, its place in the loop (i), the task
\* it is suspended on (wait), the tasks it has awaited so far, by name (waited), and
\* its results dict.
FreeColl == [st |-> "free", names |-> <<>>, i |-> 0, timeout |-> NoTimeout, wait |-> 0,
             waited |-> NoWaits, results |-> NoResults]

\* ------------------------------------------------------------ the clock

Tick(d) ==
    /\ ticks < MaxTicks
    /\ now' = now + d
    /\ ticks' = ticks + 1
    /\ UNCHANGED <<sessions, meta, conn, tasks, bg, coll, reaper, clean, status, bridge>>

\* ------------------------------------------------------------ _execute_call

\* Line 208: the generated fork name.
GenForkName(name, t) == <<name[1], "fork", strftime(t)>>

\* Lines 197-198: the parent id a fork resumes from.
ForkParentId(name) == meta[CidOf(name)].session_id

\* A fork that skips the check of line 211.
ForkNameTakenNever(target) == FALSE

\* Line 211.
ForkNameTaken(target) == HasSession(target)

\* A call that never looks for the current session id.
DetectParentNever(parent_in, detected) == parent_in

\* Lines 185-186.
DetectParent(parent_in, detected) == IF parent_in # None THEN parent_in ELSE detected

\* A get_or_create_session without the check of line 144.
GetOrCreateAlwaysConnects(t, rec, name, parent) ==
    /\ conn' = [conn EXCEPT ![t] = "connecting"]
    /\ tasks' = [tasks EXCEPT ![t] = [rec EXCEPT !.st = "connecting", !.name = name,
                                                 !.parent = parent, !.cid = t]]
    /\ UNCHANGED <<meta, sessions>>

\* get_or_create_session up to its return (a present name) or to its await of
\* client.connect() (an absent one); rec is the coroutine's record so far.
GetOrCreateBegin(t, rec, name, parent) ==
    IF HasSession(name)
    THEN /\ meta' = [meta EXCEPT ![CidOf(name)].last_used = isoformat(now)]
         /\ tasks' = [tasks EXCEPT ![t] = [rec EXCEPT !.st = "querying", !.name = name,
                                                      !.cid = CidOf(name)]]
         /\ UNCHANGED <<conn, sessions>>
    ELSE /\ conn' = [conn EXCEPT ![t] = "connecting"]
         /\ tasks' = [tasks EXCEPT ![t] = [rec EXCEPT !.st = "connecting", !.name = name,
                                                      !.parent = parent, !.cid = t]]
         /\ UNCHANGED <<meta, sessions>>

\* A coroutine that has ended: its frame is gone, its outcome stays with the task.
Ended(rec, st, result) == [FreeTask EXCEPT !.st = st, !.kind = rec.kind, !.result = result]

\* An early return of _execute_call with an error dict.
ReturnError(t, rec, tag) ==
    /\ tasks' = [tasks EXCEPT ![t] = Ended(rec, "done", ErrorResult(tag))]
    /\ UNCHANGED <<meta, conn, sessions>>

\* _execute_call from its entry to its first await (lines 184-221, and 144-159 of
\* get_or_create_session).
ExecuteCallBegin(t, rec, name, fork, fork_name, parent_in, detected) ==
    LET p0 == DetectParent(parent_in, detected)
    IN  IF fork /\ ~HasSession(name)
        THEN ReturnError(t, rec, "fork_no_source")
        ELSE IF fork /\ ForkParentId(name) = None
        THEN ReturnError(t, rec, "fork_no_session_id")
        ELSE LET target == IF ~fork THEN name
                           ELSE IF fork_name = NoName THEN GenForkName(name, now)
                           ELSE fork_name
                 parent == IF fork THEN ForkParentId(name) ELSE p0
             IN  IF fork /\ ForkNameTaken(target)
                 THEN ReturnError(t, rec, "fork_name_exists")
                 ELSE GetOrCreateBegin(t, rec, target, parent)

\* claudy_call: the caller's coroutine runs _execute_call at once.
ClaudyCall(name, fork, fork_name, parent_in, detected) ==
    /\ FreeTasks # {}
    /\ LET t == NewTask
           rec == [FreeTask EXCEPT !.kind = "sync", !.src = name, !.fork = fork]
       IN  ExecuteCallBegin(t, rec, name, fork, fork_name, parent_in, detected)
    /\ UNCHANGED <<now, ticks, bg, coll, reaper, clean, status, bridge>>

\* client.connect() returns: lines 161-172, then line 224 up to the await of query.
ConnectReturns(t) ==
    /\ tasks[t].st = "connecting"
    /\ meta' = [meta EXCEPT ![tasks[t].cid] = NewMeta(now, tasks[t].parent)]
    /\ sessions' = PutSession(sessions, tasks[t].name, tasks[t].cid)
    /\ conn' = [conn EXCEPT ![tasks[t].cid] = "open"]
    /\ tasks' = [tasks EXCEPT ![t].st = "querying", ![t].parent = None]
    /\ UNCHANGED <<now, ticks, bg, coll, reaper, clean, status, bridge>>

\* An exception leaves _execute_call: nothing in it catches one.
Raise(t) == tasks' = [tasks EXCEPT ![t] = Ended(tasks[t], "raised", NoResult)]

\* A connect() failure that is noticed only after the session was stored.
ConnectRaisesAfterInsert(t) ==
    /\ tasks[t].st = "connecting"
    /\ meta' = [meta EXCEPT ![tasks[t].cid] = NewMeta(now, tasks[t].parent)]
    /\ sessions' = PutSession(sessions, tasks[t].name, tasks[t].cid)
    /\ conn' = [conn EXCEPT ![tasks[t].cid] = "failed"]
    /\ Raise(t)
    /\ UNCHANGED <<now, ticks, bg, coll, reaper, clean, status, bridge>>

\* Line 159, `await client.connect()`, raises: lines 161-172 are not reached and the
\* exception leaves get_or_create_session and _execute_call.
ConnectRaises(t) ==
    /\ tasks[t].st = "connecting"
    /\ conn' = [conn EXCEPT ![tasks[t].cid] = "failed"]
    /\ Raise(t)
    /\ UNCHANGED <<now, ticks, sessions, meta, bg, coll, reaper, clean, status, bridge>>

\* client.query(message) returns: the coroutine enters the async for of line 230.
QueryReturns(t) ==
    /\ tasks[t].st = "querying"
    /\ tasks' = [tasks EXCEPT ![t].st = "streaming"]
    /\ UNCHANGED <<now, ticks, sessions, meta, conn, bg, coll, reaper, clean, status, bridge>>

QueryRaises(t) ==
    /\ tasks[t].st = "querying"
    /\ Raise(t)
    /\ UNCHANGED <<now, ticks, sessions, meta, conn, bg, coll, reaper, clean, status, bridge>>

\* Lines 232-235: whether this event's session_id is recorded in the metadata.
RecordsSessionId(local, carried, stored) ==
    local = None /\ carried # None /\ stored = None

\* One event of receive_response(); carried is its session_id (None: it has none).
ReceiveEvent(t, carried) ==
    /\ tasks[t].st = "streaming"
    /\ tasks' = [tasks EXCEPT ![t].sid = IF tasks[t].sid = None THEN carried
                                        ELSE tasks[t].sid]
    /\ meta' = IF RecordsSessionId(tasks[t].sid, carried, meta[tasks[t].cid].session_id)
               THEN [meta EXCEPT ![tasks[t].cid].session_id = carried]
               ELSE meta
    /\ UNCHANGED <<now, ticks, sessions, conn, bg, coll, reaper, clean, status, bridge>>

\* The response stream ends: lines 273-293.
StreamEnds(t) ==
    /\ tasks[t].st = "streaming"
    /\ meta' = [meta EXCEPT ![tasks[t].cid].last_used = isoformat(now),
                            ![tasks[t].cid].message_count = @ + 1]
    /\ tasks' = [tasks EXCEPT ![t] = Ended(tasks[t], "done",
                                            SuccessResult(tasks[t].name, tasks[t].sid))]
    /\ UNCHANGED <<now, ticks, sessions, conn, bg, coll, reaper, clean, status, bridge>>

\* A stream that raises only after lines 274-275 have run.
StreamRaisesAfterUpdate(t) ==
    /\ tasks[t].st = "streaming"
    /\ meta' = [meta EXCEPT ![tasks[t].cid].last_used = isoformat(now),
                            ![tasks[t].cid].message_count = @ + 1]
    /\ Raise(t)
    /\ UNCHANGED <<now, ticks, sessions, conn, bg, coll, reaper, clean, status, bridge>>

StreamRaises(t) ==
    /\ tasks[t].st = "streaming"
    /\ Raise(t)
    /\ UNCHANGED <<now, ticks, sessions, meta, conn, bg, coll, reaper, clean, status, bridge>>

\* The steps every _execute_call coroutine takes after its first segment, the
\* response events carrying the session ids of ids.
TaskStep(ids) ==
    \E t \in TaskIds :
        \/ ConnectReturns(t)
        \/ ConnectRaises(t)
        \/ QueryReturns(t)
        \/ QueryRaises(t)
        \/ \E carried \in ids \cup {None} : ReceiveEvent(t, carried)
        \/ StreamEnds(t)
        \/ StreamRaises(t)

\* ------------------------------------------------------------ claudy_call_async

\* A claudy_call_async that cancels the task it replaces.
ClaudyCallAsyncCancelsOld(name, parent_in) ==
    /\ FreeTasks # {}
    /\ LET t == NewTask
           old == bg[name]
           started == [tasks EXCEPT ![t] = [FreeTask EXCEPT !.st = "scheduled",
                                                            !.kind = "bg", !.src = name,
                                                            !.parent = parent_in]]
       IN  /\ tasks' = IF old # 0 /\ tasks[old].st \in Pending
                       THEN [started EXCEPT ![old] = Ended(tasks[old], "cancelling", NoResult)]
                       ELSE started
           /\ bg' = [bg EXCEPT ![name] = t]
    /\ UNCHANGED <<now, ticks, sessions, meta, conn, coll, reaper, clean, status, bridge>>

\* Lines 374-375: the task is created, not yet run, and takes the name's slot in
\* _background_tasks whatever was there.
ClaudyCallAsync(name, parent_in) ==
    /\ FreeTasks # {}
    /\ LET t == NewTask
       IN  /\ tasks' = [tasks EXCEPT ![t] = [FreeTask EXCEPT !.st = "scheduled",
                                                            !.kind = "bg", !.src = name,
                                                            !.parent = parent_in]]
           /\ bg' = [bg EXCEPT ![name] = t]
    /\ UNCHANGED <<now, ticks, sessions, meta, conn, coll, reaper, clean, status, bridge>>

\* The event loop runs the new task's first segment.
TaskStart(t, detected) ==
    /\ tasks[t].st = "scheduled"
    /\ ExecuteCallBegin(t, [tasks[t] EXCEPT !.parent = None], tasks[t].src, FALSE, NoName,
                        tasks[t].parent, detected)
    /\ UNCHANGED <<now, ticks, bg, coll, reaper, clean, status, bridge>>

\* A cancelled task gets CancelledError at the await it is suspended at; nothing in
\* _execute_call catches it.
TaskCancelled(t) ==
    /\ tasks[t].st = "cancelling"
    /\ tasks' = [tasks EXCEPT ![t] = Ended(tasks[t], "cancelled", NoResult)]
    /\ UNCHANGED <<now, ticks, sessions, meta, conn, bg, coll, reaper, clean, status, bridge>>

\* ------------------------------------------------------------ claudy_get_results

\* Line 427.
NotFoundEntry(name) == [success |-> FALSE, tag |-> "no_task", name |-> name, session_id |-> None]
\* Lines 443-447.
TimeoutEntry(name) == [success |-> FALSE, tag |-> "timeout", name |-> name, session_id |-> None]
\* Lines 449-453.
FailedEntry(name) == [success |-> FALSE, tag |-> "task_failed", name |-> name, session_id |-> None]

\* results[name] = entry
SetEntry(results, name, entry) ==
    [n \in DOMAIN results \cup {name} |-> IF n = name THEN entry ELSE results[n]]

\* Line 432: `if timeout:` chooses asyncio.wait_for.
Timed(timeout) == timeout # NoTimeout /\ timeout # 0

\* A del that passes over an absent key.
DelNeverRaises(track, name) == FALSE

\* Line 440, `del _background_tasks[name]`, raises KeyError for an absent key.
DelRaises(track, name) == track[name] = 0

\* The outcome of awaiting task w for `name` (lines 433-456), the await being over:
\* the results and the tracking map after it, and whether an exception leaves
\* claudy_get_results (CancelledError is no Exception).
HandleOutcome(name, w, results, track) ==
    IF tasks[w].st = "cancelled"
    THEN [results |-> results, track |-> track, raised |-> TRUE]
    ELSE IF tasks[w].st = "done" /\ ~DelRaises(track, name)
    THEN [results |-> SetEntry(results, name, tasks[w].result),
          track |-> [track EXCEPT ![name] = 0], raised |-> FALSE]
    ELSE [results |-> SetEntry(results, name, FailedEntry(name)),
          track |-> [track EXCEPT ![name] = 0], raised |-> FALSE]

\* The loop of lines 425-456 from names[i] on, up to the next await that suspends
\* (blocked, on task wait) or to the end of the list.
RECURSIVE CollectRun(_, _, _, _, _)
CollectRun(names, i, results, track, waited) ==
    IF i > Len(names)
    THEN [i |-> i, results |-> results, track |-> track, st |-> "returned", wait |-> 0,
          waited |-> waited]
    ELSE LET name == names[i]
             w == track[name]
             seen == [n \in DOMAIN waited \cup {name} |-> IF n = name THEN w ELSE waited[n]]
         IN  IF w = 0
             THEN CollectRun(names, i + 1, SetEntry(results, name, NotFoundEntry(name)),
                             track, waited)
             ELSE IF tasks[w].st \in Finished
             THEN LET h == HandleOutcome(name, w, results, track)
                  IN  IF h.raised
                      THEN [i |-> i, results |-> results, track |-> track,
                            st |-> "raised", wait |-> 0, waited |-> seen]
                      ELSE CollectRun(names, i + 1, h.results, h.track, seen)
             ELSE [i |-> i, results |-> results, track |-> track, st |-> "waiting",
                   wait |-> w, waited |-> seen]

\* The collector's record after a segment that ended as r says.
CollAfter(c, names, timeout, r) ==
    IF r.st = "waiting"
    THEN [st |-> "waiting", names |-> names, i |-> r.i, timeout |-> timeout,
          wait |-> r.wait, waited |-> r.waited, results |-> r.results]
    ELSE IF r.st = "returned"
    THEN [FreeColl EXCEPT !.st = "returned", !.names = names, !.timeout = timeout,
                          !.waited = r.waited, !.results = r.results]
    ELSE [FreeColl EXCEPT !.st = "raised", !.names = names, !.timeout = timeout]

FreeColls == {c \in CollIds : coll[c].st = "free"}
NewColl == CHOOSE c \in FreeColls : \A d \in FreeColls : c <= d

\* claudy_get_results is called: lines 423-435 up to the first await that suspends.
ClaudyGetResults(names, timeout) ==
    /\ FreeColls # {}
    /\ LET r == CollectRun(names, 1, NoResults, bg, NoWaits)
       IN  /\ coll' = [coll EXCEPT ![NewColl] = CollAfter(NewColl, names, timeout, r)]
           /\ bg' = r.track
    /\ UNCHANGED <<now, ticks, sessions, meta, conn, tasks, reaper, clean, status, bridge>>

\* The awaited task has ended: the collector resumes after lines 433/435.
CollectResume(c) ==
    /\ coll[c].st = "waiting"
    /\ tasks[coll[c].wait].st \in Finished
    /\ LET name == coll[c].names[coll[c].i]
           h == HandleOutcome(name, coll[c].wait, coll[c].results, bg)
           r == CollectRun(coll[c].names, coll[c].i + 1, h.results, h.track, coll[c].waited)
       IN  IF h.raised
           THEN /\ coll' = [coll EXCEPT ![c] = [FreeColl EXCEPT !.st = "raised",
                                                               !.names = coll[c].names,
                                                               !.timeout = coll[c].timeout]]
                /\ UNCHANGED bg
           ELSE /\ coll' = [coll EXCEPT ![c] = CollAfter(c, coll[c].names, coll[c].timeout, r)]
                /\ bg' = r.track
    /\ UNCHANGED <<now, ticks, sessions, meta, conn, tasks, reaper, clean, status, bridge>>

\* What asyncio.wait_for does to the awaited task when the timeout expires first.
WaitForExpiry(w) == [tasks EXCEPT ![w] = Ended(tasks[w], "cancelling", NoResult)]

\* The timeout of wait_for expires with the task still running: wait_for cancels the
\* task and waits for it to end.
CollectTimeout(c) ==
    /\ coll[c].st = "waiting"
    /\ Timed(coll[c].timeout)
    /\ tasks[coll[c].wait].st \notin Finished
    /\ tasks' = WaitForExpiry(coll[c].wait)
    /\ conn' = IF tasks[coll[c].wait].st = "connecting"
               THEN [conn EXCEPT ![coll[c].wait] = "failed"] ELSE conn
    /\ coll' = [coll EXCEPT ![c].st = "expired"]
    /\ UNCHANGED <<now, ticks, sessions, meta, bg, reaper, clean, status, bridge>>

\* A timeout handler that ends the loop instead of going on to the next name.
CollectTimedOutEndsLoop(c) ==
    /\ coll[c].st = "expired"
    /\ tasks[coll[c].wait].st \in Finished
    /\ LET name == coll[c].names[coll[c].i]
       IN  coll' = [coll EXCEPT ![c] =
                       [FreeColl EXCEPT !.st = "returned", !.names = coll[c].names,
                                        !.timeout = coll[c].timeout,
                                        !.waited = coll[c].waited,
                                        !.results = SetEntry(coll[c].results, name,
                                                             TimeoutEntry(name))]]
    /\ UNCHANGED <<now, ticks, sessions, meta, conn, tasks, bg, reaper, clean, status, bridge>>

\* wait_for raises TimeoutError once the cancelled task has ended: lines 442-447,
\* then the loop goes on.
CollectTimedOut(c) ==
    /\ coll[c].st = "expired"
    /\ tasks[coll[c].wait].st \in Finished
    /\ LET name == coll[c].names[coll[c].i]
           r == CollectRun(coll[c].names, coll[c].i + 1,
                           SetEntry(coll[c].results, name, TimeoutEntry(name)), bg,
                           coll[c].waited)
       IN  /\ coll' = [coll EXCEPT ![c] = CollAfter(c, coll[c].names, coll[c].timeout, r)]
           /\ bg' = r.track
    /\ UNCHANGED <<now, ticks, sessions, meta, conn, tasks, reaper, clean, status, bridge>>

CollectStep ==
    \E c \in CollIds :
        \/ CollectResume(c)
        \/ CollectTimeout(c)
        \/ CollectTimedOut(c)

\* ------------------------------------------------------------ claudy_check_status

\* No reply yet.
NoStatus == [n \in {} |-> "none"]

\* asyncio.Task.done() read as "has returned a result".
TaskStatusDoneOnly(name) ==
    IF bg[name] = 0 THEN "not_found"
    ELSE IF tasks[bg[name]].st = "done" THEN "completed"
    ELSE "running"

\* Lines 492-497.
TaskStatus(name) ==
    IF bg[name] = 0 THEN "not_found"
    ELSE IF tasks[bg[name]].st \in Finished THEN "completed"
    ELSE "running"

\* Lines 486-497: the tasks_status dict; given is `names is not None`.
CheckStatus(given, names) ==
    LET asked == IF given THEN {names[i] : i \in DOMAIN names}
                 ELSE {n \in DOMAIN bg : bg[n] # 0}
    IN  [n \in asked |-> TaskStatus(n)]

\* claudy_check_status: it awaits nothing.
ClaudyCheckStatus(given, names) ==
    /\ status' = CheckStatus(given, names)
    /\ UNCHANGED <<now, ticks, sessions, meta, conn, tasks, bg, coll, reaper, clean, bridge>>

\* ------------------------------------------------------------ cleanup_idle_sessions

\* Line 62.
IsIdle(idle_seconds) == idle_seconds > SESSION_IDLE_TIMEOUT

\* Lines 58-60: a session's idle time at instant t.
IdleSeconds(cid, t) == t - fromisoformat(meta[cid].last_used)

\* Lines 55-63: the names to clean up, in the dict's order.
ToCleanup ==
    LET idle == SelectSeq(sessions, LAMBDA e : IsIdle(IdleSeconds(e.cid, now)))
    IN  [i \in DOMAIN idle |-> idle[i].name]

\* Line 67: the loop passes over the names that are no longer in the dict.
RECURSIVE SkipAbsent(_)
SkipAbsent(queue) ==
    IF queue = <<>> \/ HasSession(Head(queue)) THEN queue ELSE SkipAbsent(Tail(queue))

\* The reaper at its await of asyncio.sleep, entered at instant t (line 53).
Sleeping(t) == [pc |-> "sleep", wake |-> t + SESSION_CLEANUP_INTERVAL, at |-> 0,
                queue |-> <<>>, name |-> NoName, cid |-> 0]

\* The loop of lines 66-73 from the head of queue on, up to the await of
\* disconnect() or to the end of the sweep (and the next sleep).
\* `at` is the sweep's local `now` of line 55.
ReaperRun(queue, at) ==
    LET q == SkipAbsent(queue)
    IN  IF q = <<>>
        THEN Sleeping(now)
        ELSE [pc |-> "disconnect", wake |-> 0, at |-> at, queue |-> Tail(q),
              name |-> Head(q), cid |-> CidOf(Head(q))]

\* asyncio.sleep returns: one sweep starts (lines 55-70).
ReaperWake ==
    /\ reaper.pc = "sleep"
    /\ now >= reaper.wake
    /\ reaper' = ReaperRun(ToCleanup, now)
    /\ UNCHANGED <<now, ticks, sessions, meta, conn, tasks, bg, coll, clean, status, bridge>>

\* client.disconnect() is over (it returned, or raised and line 71 caught that):
\* line 73, whose KeyError ends the sweep at line 75, then the loop goes on.
ReaperDisconnected(returned) ==
    /\ reaper.pc = "disconnect"
    /\ conn' = IF returned THEN [conn EXCEPT ![reaper.cid] = "closed"] ELSE conn
    /\ IF HasSession(reaper.name)
       THEN /\ sessions' = DelSession(sessions, reaper.name)
            /\ reaper' = ReaperRun(reaper.queue, reaper.at)
       ELSE /\ reaper' = Sleeping(now)
            /\ UNCHANGED sessions
    /\ UNCHANGED <<now, ticks, meta, tasks, bg, coll, clean, status, bridge>>

\* ------------------------------------------------------------ claudy_cleanup

FreeClean == [st |-> "free", name |-> NoName, cid |-> 0, pending |-> <<>>, count |-> 0,
              reply |-> "none"]

FreeCleans == {k \in CleanIds : clean[k].st = "free"}
NewClean == CHOOSE k \in FreeCleans : \A j \in FreeCleans : k <= j

CleanReturned(reply, count) ==
    [FreeClean EXCEPT !.st = "returned", !.reply = reply, !.count = count]

\* claudy_cleanup(name): lines 576-599 up to the await of disconnect().
ClaudyCleanupOne(name) ==
    /\ FreeCleans # {}
    /\ clean' = [clean EXCEPT ![NewClean] =
                    IF name = NoName THEN CleanReturned("name_required", 0)
                    ELSE IF ~HasSession(name) THEN CleanReturned("not_found", 0)
                    ELSE [FreeClean EXCEPT !.st = "disconnect_one", !.name = name,
                                           !.cid = CidOf(name)]]
    /\ UNCHANGED <<now, ticks, sessions, meta, conn, tasks, bg, coll, reaper, status, bridge>>

\* disconnect() is over: line 603, whose KeyError leaves the tool, then the reply.
CleanupOneDisconnected(k, returned) ==
    /\ clean[k].st = "disconnect_one"
    /\ conn' = IF returned THEN [conn EXCEPT ![clean[k].cid] = "closed"] ELSE conn
    /\ IF HasSession(clean[k].name)
       THEN /\ sessions' = DelSession(sessions, clean[k].name)
            /\ clean' = [clean EXCEPT ![k] = CleanReturned("cleaned", 1)]
       ELSE /\ clean' = [clean EXCEPT ![k] = [FreeClean EXCEPT !.st = "raised"]]
            /\ UNCHANGED sessions
    /\ UNCHANGED <<now, ticks, meta, tasks, bg, coll, reaper, status, bridge>>

\* list(_global_sessions.values()) of line 562: the clients, in the dict's order.
ClientList == [i \in DOMAIN sessions |-> sessions[i].cid]

\* claudy_cleanup(all=True): lines 561-564 up to the first await of disconnect(), or
\* to the reply when there is no session.
ClaudyCleanupAll ==
    /\ FreeCleans # {}
    /\ clean' = [clean EXCEPT ![NewClean] =
                    IF sessions = <<>> THEN CleanReturned("cleaned_all", 0)
                    ELSE [FreeClean EXCEPT !.st = "disconnect_all",
                                           !.cid = Head(ClientList),
                                           !.pending = Tail(ClientList),
                                           !.count = Len(sessions)]]
    /\ UNCHANGED <<now, ticks, sessions, meta, conn, tasks, bg, coll, reaper, status, bridge>>

\* One disconnect() of the loop is over: the next one, or line 567 and the reply.
CleanupAllDisconnected(k, returned) ==
    /\ clean[k].st = "disconnect_all"
    /\ conn' = IF returned THEN [conn EXCEPT ![clean[k].cid] = "closed"] ELSE conn
    /\ IF clean[k].pending # <<>>
       THEN /\ clean' = [clean EXCEPT ![k].cid = Head(clean[k].pending),
                                      ![k].pending = Tail(clean[k].pending)]
            /\ UNCHANGED sessions
       ELSE /\ sessions' = <<>>
            /\ clean' = [clean EXCEPT ![k] = CleanReturned("cleaned_all", clean[k].count)]
    /\ UNCHANGED <<now, ticks, meta, tasks, bg, coll, reaper, status, bridge>>

CleanupStep ==
    \E k \in CleanIds, returned \in BOOLEAN :
        \/ CleanupOneDisconnected(k, returned)
        \/ CleanupAllDisconnected(k, returned)

\* ------------------------------------------------------------ stdio_proxy

\* JSON null / Python None where a request id is expected.
NullId == 0
RequestIds == {1, 2}

\* The JSON-RPC error codes of lines 122, 97 and 107.
PARSE_ERROR == 0 - 32700
METHOD_NOT_FOUND == 0 - 32601
INTERNAL_ERROR == 0 - 32603

\* What readline() returns.  kind: eof (the empty string), blank (a bare newline),
\* garbage (text that is no JSON), array (JSON that is no object), object.  An
\* object has a method (none: no such key), an id (NullId: none or null) and
\* params: absent (no such key), call (an object with name and arguments) or null.
Eof == [kind |-> "eof", method |-> "none", id |-> NullId, params |-> "absent"]
TextLine(kind) == [kind |-> kind, method |-> "none", id |-> NullId, params |-> "absent"]
ObjectLine(method, id, params) ==
    [kind |-> "object", method |-> method, id |-> id, params |-> params]

InputLines ==
    {TextLine(k) : k \in {"blank", "garbage", "array"}}
    \cup {ObjectLine(m, i, "absent") :
             m \in {"initialize", "tools/list", "frob", "none"},
             i \in RequestIds \cup {NullId}}
    \cup {ObjectLine("tools/call", i, p) :
             i \in RequestIds \cup {NullId}, p \in {"absent", "call", "null"}}

\* A bridge for which no line is a JSON syntax error.
RaisesNoJSONDecodeError(line) == FALSE

\* Line 28: json.loads(line.strip()) raises JSONDecodeError.
RaisesJSONDecodeError(line) == line.kind \in {"blank", "garbage"}

\* Whether json.loads gave a dict, the only value with a get method (lines 31-33).
IsDict(line) == line.kind = "object"

\* Lines 73-74: params.get("name") and params.get("arguments", {}).
ToolName(params) == IF params = "call" THEN "tool" ELSE "none"
ToolArgs(params) == IF params = "call" THEN "args" ELSE "empty"

\* The response dicts.  code 0: a result.
NoBody == [kind |-> "none", items |-> <<>>]
ErrorResponse(id, code) == [id |-> id, code |-> code, result |-> NoBody]
ResultResponse(id, kind, items) ==
    [id |-> id, code |-> 0, result |-> [kind |-> kind, items |-> items]]
\* Lines 83-86.
TextContent(data) == [type |-> "text", text |-> data]

\* What client.call_tool can return as result.data.
ToolResults == {"r1", "r2"}

\* run_stdio_proxy at its first connection attempt (lines 139-146).
BridgeStart ==
    [pc |-> "connect", attempt |-> 0, retry_delay |-> retry_delay, connects |-> 1,
     loops |-> 0, slept |-> <<>>, status |-> 0, lines |-> <<>>, req |-> Eof,
     out |-> <<>>, calls |-> <<>>]

server == <<now, ticks, sessions, meta, conn, tasks, bg, coll, reaper, clean, status>>

\* Lines 113-114: the response is written and the loop goes back to readline().
WriteResponse(b, response) ==
    [b EXCEPT !.pc = "read", !.req = Eof, !.out = Append(@, response)]

\* Lines 150-158: the handler of run_stdio_proxy's try.
AttemptFailed(b) ==
    IF b.attempt < max_retries - 1
    THEN [b EXCEPT !.pc = "backoff", !.req = Eof, !.slept = Append(@, b.retry_delay)]
    ELSE [b EXCEPT !.pc = "failed", !.req = Eof, !.status = 1]

\* `async with client` is entered: _handle_stdio_loop starts (line 148).
BridgeConnectReturns ==
    /\ bridge.pc = "connect"
    /\ bridge' = [bridge EXCEPT !.pc = "read", !.loops = @ + 1]
    /\ UNCHANGED server

\* Entering `async with client` raises.
BridgeConnectRaises ==
    /\ bridge.pc = "connect"
    /\ bridge' = AttemptFailed(bridge)
    /\ UNCHANGED server

\* asyncio.sleep(retry_delay) returns: line 155, then the next attempt.
BridgeWake ==
    /\ bridge.pc = "backoff"
    /\ bridge' = [bridge EXCEPT !.pc = "connect", !.retry_delay = @ * 2,
                                !.attempt = @ + 1, !.connects = @ + 1]
    /\ UNCHANGED server

\* Lines 36-100 for a request that is a dict, up to the await of the remote call or
\* to the written response.
HandleRequest(b, request) ==
    IF request.method = "initialize"
    THEN WriteResponse(b, ResultResponse(request.id, "initialize", <<>>))
    ELSE IF request.method = "tools/list"
    THEN [b EXCEPT !.pc = "list", !.req = request]
    ELSE IF request.method = "tools/call"
    THEN IF request.params = "null"
         THEN WriteResponse(b, ErrorResponse(request.id, INTERNAL_ERROR))
         ELSE [b EXCEPT !.pc = "call", !.req = request,
                        !.calls = Append(@, [tool |-> ToolName(request.params),
                                             args |-> ToolArgs(request.params),
                                             at |-> Len(b.out)])]
    ELSE WriteResponse(b, ErrorResponse(request.id, METHOD_NOT_FOUND))

\* readline() returns line: lines 24-33, then the handling of the request; a
\* JSONDecodeError is answered at lines 116-127, any other exception outside the
\* inner try ends the loop at lines 129-133.
BridgeReadLine(line) ==
    /\ bridge.pc = "read"
    /\ line = Eof \/ Len(bridge.lines) < MaxLines
    /\ bridge' =
          IF line = Eof THEN [bridge EXCEPT !.pc = "close"]
          ELSE LET b == [bridge EXCEPT !.lines = Append(@, line)]
               IN  IF RaisesJSONDecodeError(line)
                   THEN WriteResponse(b, ErrorResponse(NullId, PARSE_ERROR))
                   ELSE IF ~IsDict(line)
                   THEN [b EXCEPT !.pc = "close"]
                   ELSE HandleRequest(b, line)
    /\ UNCHANGED server

\* client.list_tools() returns: lines 56-69, 113-114.
BridgeListReturns ==
    /\ bridge.pc = "list"
    /\ bridge' = WriteResponse(bridge, ResultResponse(bridge.req.id, "tools", <<>>))
    /\ UNCHANGED server

\* client.list_tools() raises: lines 102-114.
BridgeListRaises ==
    /\ bridge.pc = "list"
    /\ bridge' = WriteResponse(bridge, ErrorResponse(bridge.req.id, INTERNAL_ERROR))
    /\ UNCHANGED server

\* A bridge that answers a tool call with the id of the line read before.
BridgeCallReturnsStaleId(data) ==
    /\ bridge.pc = "call"
    /\ bridge' = WriteResponse(bridge,
                      ResultResponse(IF Len(bridge.lines) > 1
                                     THEN bridge.lines[Len(bridge.lines) - 1].id
                                     ELSE NullId,
                                     "content", <<TextContent(data)>>))
    /\ UNCHANGED server

\* client.call_tool(...) returns a result whose data is `data`: lines 78-89, 113-114.
BridgeCallReturns(data) ==
    /\ bridge.pc = "call"
    /\ bridge' = WriteResponse(bridge, ResultResponse(bridge.req.id, "content",
                                                      <<TextContent(data)>>))
    /\ UNCHANGED server

\* A bridge whose loop ends when the remote call raises.
BridgeCallRaisesEndsLoop ==
    /\ bridge.pc = "call"
    /\ bridge' = [bridge EXCEPT !.pc = "close", !.req = Eof]
    /\ UNCHANGED server

\* client.call_tool(...) raises: lines 102-114.
BridgeCallRaises ==
    /\ bridge.pc = "call"
    /\ bridge' = WriteResponse(bridge, ErrorResponse(bridge.req.id, INTERNAL_ERROR))
    /\ UNCHANGED server

\* The loop has ended and `async with client` is left without an exception:
\* line 149 returns.
BridgeCloseReturns ==
    /\ bridge.pc = "close"
    /\ bridge' = [bridge EXCEPT !.pc = "exited"]
    /\ UNCHANGED server

\* Leaving `async with client` raises: the exception is caught at line 150.
BridgeCloseRaises ==
    /\ bridge.pc = "close"
    /\ bridge' = AttemptFailed(bridge)
    /\ UNCHANGED server

\* ------------------------------------------------------------ Init

Init ==
    /\ now = 0
    /\ ticks = 0
    /\ sessions = <<>>
    /\ meta = [t \in TaskIds |-> NoMeta]
    /\ conn = [t \in TaskIds |-> "none"]
    /\ tasks = [t \in TaskIds |-> FreeTask]
    /\ bg = [n \in Names |-> 0]
    /\ coll = [c \in CollIds |-> FreeColl]
    /\ reaper = Sleeping(0)
    /\ clean = [k \in CleanIds |-> FreeClean]
    /\ status = NoStatus
    /\ bridge = BridgeStart

\* ------------------------------------------------------------ specifications

\* The name lists a caller hands to claudy_get_results.
NameLists ==
    {<<n>> : n \in Names} \cup {<<p[1], p[2]>> : p \in {q \in Names \X Names : q[1] # q[2]}}

\* Callers of claudy_call only (forks included).
NextCalls ==
    \/ \E name \in Names, fork \in BOOLEAN, fork_name \in Names \cup {NoName},
          parent_in \in ParentInputs, detected \in DetectedIds :
            ClaudyCall(name, fork, fork_name, parent_in, detected)
    \/ TaskStep(RemoteIds)
    \/ Tick(SESSION_CLEANUP_INTERVAL)

SpecCalls == Init /\ [][NextCalls]_vars

\* Plain calls and forks, with no parent id given or detected.
NextFork ==
    \/ \E name \in Names : ClaudyCall(name, FALSE, NoName, None, None)
    \/ \E name \in Names, fork_name \in Names \cup {NoName} :
          ClaudyCall(name, TRUE, fork_name, None, None)
    \/ TaskStep({"s1"})
    \/ Tick(SESSION_CLEANUP_INTERVAL)

SpecFork == Init /\ [][NextFork]_vars

\* Plain calls whose resolves do not overlap: a call arrives only when no
\* get_or_create_session is suspended at connect().  No session is removed.
NextResolve ==
    \/ \E name \in Names :
          (\A t \in TaskIds : tasks[t].st # "connecting")
              /\ ClaudyCall(name, FALSE, NoName, None, None)
    \/ TaskStep({"s1"})
    \/ Tick(SESSION_CLEANUP_INTERVAL)

SpecResolve == Init /\ [][NextResolve]_vars

\* Plain calls with and without a parent id given or detected, and forks into a
\* generated name.
NextParents ==
    \/ \E name \in Names, parent_in \in ParentInputs, detected \in DetectedIds :
          ClaudyCall(name, FALSE, NoName, parent_in, detected)
    \/ \E name \in Names, parent_in \in ParentInputs :
          ClaudyCall(name, TRUE, NoName, parent_in, None)
    \/ TaskStep({"s1"})

SpecParents == Init /\ [][NextParents]_vars

\* Background tasks and claudy_check_status.
NextStatus ==
    \/ \E name \in Names : ClaudyCallAsync(name, None)
    \/ \E t \in TaskIds : TaskStart(t, None)
    \/ TaskStep({})
    \/ \E names \in NameLists : ClaudyCheckStatus(TRUE, names)
    \/ ClaudyCheckStatus(FALSE, <<>>)

SpecStatus == Init /\ [][NextStatus]_vars

\* Background tasks started, replaced and collected without a timeout.
NextStart ==
    \/ \E name \in Names : ClaudyCallAsync(name, None)
    \/ \E t \in TaskIds : TaskStart(t, None)
    \/ TaskStep({})
    \/ ClaudyGetResults(<< <<"a">> >>, NoTimeout)
    \/ \E c \in CollIds : CollectResume(c)

SpecStart == Init /\ [][NextStart]_vars

\* The bridge's request loop, its connection made at the first attempt.
NextBridge ==
    \/ BridgeConnectReturns
    \/ \E line \in InputLines \cup {Eof} : BridgeReadLine(line)
    \/ BridgeListReturns
    \/ BridgeListRaises
    \/ \E data \in ToolResults : BridgeCallReturns(data)
    \/ BridgeCallRaises
    \/ BridgeCloseReturns

SpecBridge == Init /\ [][NextBridge]_vars

\* The bridge's startup and shutdown, with a short input.
NextStartup ==
    \/ BridgeConnectReturns
    \/ BridgeConnectRaises
    \/ BridgeWake
    \/ \E line \in {Eof, TextLine("garbage"), ObjectLine("initialize", 1, "absent")} :
          BridgeReadLine(line)
    \/ BridgeCloseReturns
    \/ BridgeCloseRaises

SpecStartup == Init /\ [][NextStartup]_vars

\* A collector whose awaited task has ended and that has not run since: its wakeup
\* is in the event loop's ready queue.
NoPendingWakeup ==
    \A c \in CollIds : ~(coll[c].st = "waiting" /\ tasks[coll[c].wait].st \in Finished)

\* Collects of one name without a timeout, sharing tasks.  A name is started only
\* while it is not tracked, and the wakeups of a task's waiters, which the event
\* loop queues together when the task ends, run before a new start is handled.
NextShared ==
    \/ \E name \in Names :
          bg[name] = 0 /\ NoPendingWakeup /\ ClaudyCallAsync(name, None)
    \/ \E t \in TaskIds : TaskStart(t, None)
    \/ TaskStep({})
    \/ ClaudyGetResults(<< <<"a">> >>, NoTimeout)
    \/ \E c \in CollIds : CollectResume(c)

SpecShared == Init /\ [][NextShared]_vars

\* Calls that run while claudy_cleanup(all=True) awaits its disconnects, each of
\* which returns.  No two creations overlap.
NextCleanAll ==
    \/ \E name \in Names :
          (\A t \in TaskIds : tasks[t].st # "connecting")
              /\ ClaudyCall(name, FALSE, NoName, None, None)
    \/ TaskStep({})
    \/ ClaudyCleanupAll
    \/ \E k \in CleanIds : CleanupAllDisconnected(k, TRUE)

SpecCleanAll == Init /\ [][NextCleanAll]_vars

\* Background tasks and their collection.
NextCoord ==
    \/ \E name \in Names : ClaudyCallAsync(name, None)
    \/ \E t \in TaskIds : TaskStart(t, None)
    \/ \E t \in TaskIds : TaskCancelled(t)
    \/ TaskStep({"s1"})
    \/ \E names \in NameLists, timeout \in Timeouts : ClaudyGetResults(names, timeout)
    \/ CollectStep

SpecCoord == Init /\ [][NextCoord]_vars

\* Calls, the idle reaper and claudy_cleanup, with the clock.
NextReaper ==
    \/ \E name \in Names : ClaudyCall(name, FALSE, NoName, None, None)
    \/ TaskStep({})
    \/ \E d \in TickSteps : Tick(d)
    \/ ReaperWake
    \/ \E returned \in BOOLEAN : ReaperDisconnected(returned)
    \/ \E name \in Names : ClaudyCleanupOne(name)
    \/ ClaudyCleanupAll
    \/ CleanupStep

SpecReaper == Init /\ [][NextReaper]_vars

\* Background tasks and one claudy_get_results call.
NextFanIn ==
    \/ \E name \in Names : ClaudyCallAsync(name, None)
    \/ \E t \in TaskIds : TaskStart(t, None)
    \/ \E t \in TaskIds : TaskCancelled(t)
    \/ TaskStep({"s1"})
    \/ \E names \in NameLists, timeout \in {NoTimeout, 30} :
          (\A c \in CollIds : coll[c].st = "free") /\ ClaudyGetResults(names, timeout)
    \/ CollectStep

SpecFanIn == Init /\ [][NextFanIn]_vars

\* ------------------------------------------------------------ properties

\* The registry dict reg read at a name.
Has(reg, name) == \E i \in DOMAIN reg : reg[i].name = name
Cid(reg, name) == reg[CHOOSE i \in DOMAIN reg : reg[i].name = name].cid
Range(seq) == {seq[i] : i \in DOMAIN seq}

\* A coroutine inside _execute_call that has resolved (or is creating) its session.
InCall(t) == tasks[t].st \in {"connecting", "querying", "streaming"}
\* A send in flight: between the resolve and the final metadata update.
Sending(t) == tasks[t].st \in {"querying", "streaming"}

\* C1: callers that resolve the same name concurrently all hold the same connection
\* (one connect() for the name, one session record).  Stated for SpecCalls, where no
\* session is ever removed.
C1_OneConnectionPerName ==
    \A t, u \in TaskIds :
        (InCall(t) /\ InCall(u) /\ tasks[t].name = tasks[u].name)
            => tasks[t].cid = tasks[u].cid

\* C2: the reaper is never disconnecting (or about to delete) a session on which a
\* send is in flight.
C2_NoEvictionDuringSend ==
    ~ (/\ reaper.pc = "disconnect"
       /\ \E t \in TaskIds : Sending(t) /\ tasks[t].cid = reaper.cid)

\* Collector c puts an outcome for name n into its results in this step.
Reports(c, n) ==
    /\ n \in DOMAIN coll'[c].results
    /\ n \notin DOMAIN coll[c].results
    /\ coll'[c].results[n].tag # "no_task"

\* C3: once collect has reported an outcome (result, failure or timeout) for a
\* tracked name, the name is no longer tracked.
C3_ReportedNameIsUntracked ==
    [][\A c \in CollIds, n \in Names : Reports(c, n) => bg'[n] = 0]_vars

\* C4: a collect timeout does not cancel the task it stops waiting for: no task is
\* ever cancelled.
C4_TimeoutLeavesTaskRunning ==
    \A t \in TaskIds : tasks[t].st \notin {"cancelling", "cancelled"}

\* C5: a collect call never fails as a whole, and when it returns its result map has
\* an entry for every requested name.
C5_CollectReturnsEveryName ==
    \A c \in CollIds :
        /\ coll[c].st # "raised"
        /\ coll[c].st = "returned" => DOMAIN coll[c].results = Range(coll[c].names)

\* C6: one collect over two names with a timeout returns, in the same response, the
\* full success payload of each task it awaited that completed successfully and a
\* timeout entry for each task that did not finish within the timeout, in either
\* order of the names.
C6_FanInIndependence ==
    \A c \in CollIds :
        (coll[c].st = "returned" /\ Len(coll[c].names) = 2 /\ Timed(coll[c].timeout)) =>
            /\ DOMAIN coll[c].results = Range(coll[c].names)
            /\ \A n \in DOMAIN coll[c].waited :
                  LET w == coll[c].waited[n]
                  IN  /\ (tasks[w].st = "done" /\ tasks[w].result.success) =>
                            /\ coll[c].results[n] = tasks[w].result
                            /\ coll[c].results[n].success
                            /\ coll[c].results[n].name = n
                      /\ tasks[w].st \in {"cancelling", "cancelled"} =>
                            coll[c].results[n] = TimeoutEntry(n)

\* C6 witness: a collect over <<b, a>> has returned b's timeout entry and a's payload.
C6_Witness ==
    \E c \in CollIds :
        /\ coll[c].st = "returned"
        /\ coll[c].names = << <<"b">>, <<"a">> >>
        /\ coll[c].results[<<"b">>].tag = "timeout"
        /\ coll[c].results[<<"a">>].success
        /\ coll[c].results[<<"a">>].session_id = "s1"

\* C7: when a sweep has finished, no session that was idle for longer than the
\* timeout at the sweep's start, and untouched since, is left in the registry.
C7_SweepEvictsEveryIdleSession ==
    [][(reaper.pc = "disconnect" /\ reaper'.pc = "sleep") =>
          \A i \in DOMAIN sessions' :
              ~IsIdle(reaper.at - fromisoformat(meta'[sessions'[i].cid].last_used))]_vars

\* C8: whenever the reaper deletes a session, that session's idle time at that
\* instant exceeds the idle timeout.
C8_ReaperDeletesOnlyIdle ==
    [][(reaper.pc = "disconnect" /\ reaper' # reaper /\ HasSession(reaper.name)) =>
          IsIdle(IdleSeconds(CidOf(reaper.name), now))]_vars

\* C9: a fork whose source is absent, else whose source has no session id, else whose
\* fork name is taken, returns the matching error and changes nothing: no registry
\* entry, no metadata, no connection, no other coroutine.
C9_ForkPreconditions ==
    [][\A name \in Names, fork_name \in Names \cup {NoName},
          parent_in \in ParentInputs, detected \in DetectedIds :
           ClaudyCall(name, TRUE, fork_name, parent_in, detected) =>
              LET t == NewTask
                  target == IF fork_name = NoName THEN GenForkName(name, now)
                            ELSE fork_name
                  expected == IF ~Has(sessions, name) THEN "fork_no_source"
                              ELSE IF meta[Cid(sessions, name)].session_id = None
                              THEN "fork_no_session_id"
                              ELSE IF Has(sessions, target) THEN "fork_name_exists"
                              ELSE "ok"
              IN  expected # "ok" =>
                     /\ tasks'[t].st = "done"
                     /\ ~tasks'[t].result.success
                     /\ tasks'[t].result.tag = expected
                     /\ sessions' = sessions /\ meta' = meta /\ conn' = conn
                     /\ \A u \in TaskIds \ {t} : tasks'[u] = tasks[u]]_vars

\* C9 witness: a fork has failed on a taken fork name (its source existed and had a
\* session id).
C9_Witness ==
    \E t \in TaskIds : tasks[t].st = "done" /\ tasks[t].result.tag = "fork_name_exists"

\* C10: a fork that passes its checks resumes from the source's session id as it is
\* then; when its connection opens, the fork name's entry is that new connection
\* with message_count 0 and that id as parent_session_id; no step of the fork
\* changes the source's entry; and a send on one session changes no other session.
C10_ForkIsIndependentSession ==
    [][\A t \in TaskIds :
          /\ (tasks[t].st = "free" /\ tasks'[t].st = "connecting" /\ tasks'[t].fork) =>
                /\ Has(sessions, tasks'[t].src)
                /\ tasks'[t].parent = meta[Cid(sessions, tasks'[t].src)].session_id
                /\ tasks'[t].parent # None
                /\ tasks'[t].name # tasks'[t].src
                /\ sessions' = sessions /\ meta' = meta
          /\ (tasks[t].st = "connecting" /\ tasks'[t].st = "querying" /\ tasks[t].fork) =>
                /\ Has(sessions', tasks[t].name)
                /\ Cid(sessions', tasks[t].name) = t
                /\ \A i \in DOMAIN sessions : sessions[i].cid # t
                /\ conn[t] = "connecting" /\ conn'[t] = "open"
                /\ meta'[t].message_count = 0
                /\ meta'[t].session_id = None
                /\ meta'[t].parent_session_id = tasks[t].parent
                /\ \A i \in DOMAIN sessions :
                      sessions[i].name # tasks[t].name =>
                          /\ sessions'[i] = sessions[i]
                          /\ meta'[sessions[i].cid] = meta[sessions[i].cid]
                          /\ conn'[sessions[i].cid] = conn[sessions[i].cid]
          /\ (Sending(t) /\ tasks'[t] # tasks[t]) =>
                /\ sessions' = sessions
                /\ conn' = conn
                /\ \A c \in TaskIds \ {tasks[t].cid} : meta'[c] = meta[c]]_vars

\* C10 witness: a source and its fork are both registered, the fork's parent is the
\* source's session id, and one send has completed on each.
C10_Witness ==
    \E i, j \in DOMAIN sessions :
        /\ i # j
        /\ meta[sessions[i].cid].session_id # None
        /\ meta[sessions[j].cid].parent_session_id = meta[sessions[i].cid].session_id
        /\ meta[sessions[i].cid].message_count = 1
        /\ meta[sessions[j].cid].message_count = 1

\* C11: with resolves in sequence and no removal, a registry entry never changes, and
\* a resolve of a registered name returns that entry's connection, opens none, and
\* changes nothing in the metadata but last_used.
C11_ResolveIsIdempotent ==
    [][/\ \A i \in DOMAIN sessions : i \in DOMAIN sessions' /\ sessions'[i] = sessions[i]
       /\ \A t \in TaskIds :
             (tasks[t].st = "free" /\ tasks'[t].st # "free"
                 /\ Has(sessions, tasks'[t].src)) =>
                LET c == Cid(sessions, tasks'[t].src)
                IN  /\ tasks'[t].st = "querying"
                    /\ tasks'[t].cid = c
                    /\ conn' = conn
                    /\ sessions' = sessions
                    /\ meta' = [meta EXCEPT ![c].last_used = isoformat(now)]
                    /\ meta'[c].created_at = meta[c].created_at
                    /\ meta'[c].message_count = meta[c].message_count
                    /\ meta'[c].session_id = meta[c].session_id]_vars

\* C11 witness: a second call has resolved a session that another call created and
\* sent on; last_used was refreshed, the count and the session id were kept.
C11_Witness ==
    \E t \in TaskIds :
        /\ tasks[t].st = "querying"
        /\ tasks[t].cid # t
        /\ meta[tasks[t].cid].message_count = 1
        /\ meta[tasks[t].cid].session_id = "s1"
        /\ meta[tasks[t].cid].last_used # meta[tasks[t].cid].created_at

\* C12: when claudy_cleanup(all=True) returns, the registry is empty and the count
\* it reports is the number of entries it deleted.
C12_CleanupAllCountsDeleted ==
    [][\A k \in CleanIds :
          (clean[k].st = "disconnect_all" /\ clean'[k].st = "returned") =>
              /\ sessions' = <<>>
              /\ clean'[k].count = Len(sessions)]_vars

\* C13: a claudy_call whose connect, query or response stream raises still returns
\* a result to its caller: no exception leaves the call.
C13_CallNeverRaises ==
    \A t \in TaskIds : tasks[t].kind = "sync" => tasks[t].st # "raised"

\* C14: a session gets a parent_session_id only when a fork created it.
C14_ParentOnlyOnForks ==
    [][\A t \in TaskIds :
          (tasks[t].st = "connecting" /\ tasks'[t].st = "querying") =>
              (meta'[t].parent_session_id # "absent" => tasks[t].fork)]_vars

\* C14 as the code has it: a new session's parent_session_id is the parent id of the
\* call that created it (a fork: the source's session id; a plain call: the id the
\* caller gave, else the detected current session id), absent when that is None, and
\* it never changes afterwards.
C14_ParentIsCreatorsParent ==
    [][/\ \A name \in Names, fork \in BOOLEAN, parent_in \in ParentInputs,
             detected \in DetectedIds :
              ClaudyCall(name, fork, NoName, parent_in, detected) =>
                 (tasks'[NewTask].st = "connecting" =>
                     tasks'[NewTask].parent =
                         IF fork THEN meta[Cid(sessions, name)].session_id
                         ELSE IF parent_in # None THEN parent_in
                         ELSE detected)
       /\ \A t \in TaskIds :
             (tasks[t].st = "connecting" /\ tasks'[t].st = "querying") =>
                 meta'[t].parent_session_id =
                     IF tasks[t].parent = None THEN "absent" ELSE tasks[t].parent
       /\ \A c \in TaskIds :
             meta[c] # NoMeta =>
                 meta'[c].parent_session_id = meta[c].parent_session_id]_vars

\* C14 witness: one registered session has the detected id as its parent (it was
\* created by a plain call), another has a session id as its parent (a fork).
C14_Witness ==
    \E i, j \in DOMAIN sessions :
        /\ meta[sessions[i].cid].parent_session_id = "cur"
        /\ meta[sessions[j].cid].parent_session_id = "s1"

\* C15: claudy_check_status changes no task, no tracking entry and no session; it
\* reports on the names asked for, or on the tracked names when none is given:
\* not_found for an untracked name, completed for a task that has ended (with a
\* result or with an exception), running otherwise.
C15_CheckStatusReadsOnly ==
    [][\A given \in BOOLEAN, names \in NameLists \cup {<<>>} :
          ClaudyCheckStatus(given, names) =>
              /\ bg' = bg /\ tasks' = tasks /\ coll' = coll
              /\ sessions' = sessions /\ meta' = meta /\ conn' = conn
              /\ DOMAIN status' = IF given THEN Range(names)
                                  ELSE {n \in Names : bg[n] # 0}
              /\ \A n \in DOMAIN status' :
                    status'[n] = IF bg[n] = 0 THEN "not_found"
                                 ELSE IF tasks[bg[n]].st \in {"done", "raised", "cancelled"}
                                 THEN "completed"
                                 ELSE "running"]_vars

\* C15 witness: the last reply says completed for a, whose task ended with an
\* exception, and not_found for b, which is not tracked.
C15_Witness ==
    /\ DOMAIN status = Names
    /\ status[<<"a">>] = "completed"
    /\ status[<<"b">>] = "not_found"
    /\ bg[<<"a">>] # 0
    /\ tasks[bg[<<"a">>]].st = "raised"
    /\ bg[<<"b">>] = 0

\* C16: claudy_call_async returns with the new task created and not yet run; the
\* new task takes the name's slot in the tracking map, whatever was there; no other
\* task, tracking entry or session changes, and no task is cancelled; a collect
\* awaits the task tracked under the name, never one that was replaced.
C16_StartReplacesHandle ==
    [][/\ \A name \in Names :
             ClaudyCallAsync(name, None) =>
                 /\ tasks'[NewTask].st = "scheduled"
                 /\ bg'[name] = NewTask
                 /\ \A n \in Names \ {name} : bg'[n] = bg[n]
                 /\ \A u \in TaskIds \ {NewTask} : tasks'[u] = tasks[u]
                 /\ sessions' = sessions /\ meta' = meta /\ conn' = conn
       /\ \A t \in TaskIds : tasks'[t].st \notin {"cancelling", "cancelled"}
       /\ \A c \in CollIds, n \in Names :
             (n \in DOMAIN coll'[c].waited /\ n \notin DOMAIN coll[c].waited) =>
                 coll'[c].waited[n] = bg[n]]_vars

\* C16 witness: the task first started under a was replaced and is still in its
\* response stream, while the task that replaced it has been collected.
C16_Witness ==
    \E t, u \in TaskIds, c \in CollIds :
        /\ t # u
        /\ tasks[t].kind = "bg" /\ tasks[t].st = "streaming" /\ tasks[t].name = <<"a">>
        /\ tasks[u].kind = "bg" /\ tasks[u].st = "done"
        /\ coll[c].st = "returned"
        /\ <<"a">> \in DOMAIN coll[c].waited
        /\ coll[c].waited[<<"a">>] = u
        /\ coll[c].results[<<"a">>].success

\* C17: a sweep that stops evicting leaves none of the names it had still to evict
\* in the registry: a failed eviction does not end the sweep for the others.
C17_SweepSurvivesFailure ==
    [][(reaper.pc = "disconnect" /\ reaper'.pc = "sleep") =>
          \A i \in DOMAIN reaper.queue : ~Has(sessions', reaper.queue[i])]_vars

\* C18: claudy_cleanup(name) never ends with an exception.
C18_RemoveNeverRaises ==
    \A k \in CleanIds : clean[k].st # "raised"

\* C19: the send that completes on a name adds exactly 1 to the message_count that
\* the registry holds for that name and sets its last_used to now; a session_id,
\* once recorded, never changes.
C19_SendCountsOnRegisteredSession ==
    [][/\ \A t \in TaskIds :
             (Sending(t) /\ tasks'[t].st = "done") =>
                 /\ Has(sessions, tasks[t].name)
                 /\ LET c == Cid(sessions, tasks[t].name)
                    IN  /\ meta'[c].message_count = meta[c].message_count + 1
                        /\ meta'[c].last_used = isoformat(now)
       /\ \A c \in TaskIds :
             meta[c].session_id # None => meta'[c].session_id = meta[c].session_id]_vars

\* C20: a send whose query or response stream raises returns no result, let alone a
\* success, and changes no metadata (message_count stays) and no registry entry.
C20_FailedSendReportsFailureOnly ==
    [][\A t \in TaskIds :
          (Sending(t) /\ tasks'[t].st = "raised") =>
              /\ tasks'[t].result = NoResult
              /\ ~tasks'[t].result.success
              /\ meta' = meta
              /\ sessions' = sessions]_vars

\* C20 witness: a session's only send received an event carrying a session id and
\* then raised: the id is recorded, the count is still 0, and no call is running.
C20_Witness ==
    /\ \E i \in DOMAIN sessions :
          /\ meta[sessions[i].cid].session_id = "s1"
          /\ meta[sessions[i].cid].message_count = 0
    /\ \E t \in TaskIds : tasks[t].st = "raised"
    /\ \A t \in TaskIds : ~InCall(t)

\* C21: a collect that was given a timeout (0 included) and is waiting for a task
\* that has not ended can always stop waiting: the timeout can expire.
C21_GivenTimeoutBoundsWait ==
    \A c \in CollIds :
        (/\ coll[c].st = "waiting"
         /\ coll[c].timeout # NoTimeout
         /\ tasks[coll[c].wait].st \notin Finished) => ENABLED CollectTimeout(c)

\* The request line the bridge is handling: the last one read.
LastLine == bridge.lines[Len(bridge.lines)]

\* C22: the request loop ends only when readline() returns the end of input; every
\* other line read, and every remote call that ends, leaves the bridge in its loop,
\* with one more response written once the line is dealt with.
C22_LoopEndsOnlyAtEof ==
    [][/\ \A line \in InputLines :
             BridgeReadLine(line) =>
                 /\ bridge'.pc \in {"read", "list", "call"}
                 /\ bridge'.pc = "read" => Len(bridge'.out) = Len(bridge.out) + 1
       /\ (bridge.pc \in {"list", "call"} /\ bridge' # bridge) =>
             /\ bridge'.pc = "read"
             /\ Len(bridge'.out) = Len(bridge.out) + 1
       /\ (bridge.pc \in {"read", "list", "call"} /\ bridge'.pc = "close") =>
             BridgeReadLine(Eof)]_vars

\* C23: a tools/call request with a name and arguments makes the bridge forward one
\* call with that name and those arguments and write nothing yet; when the call
\* returns, the bridge forwards nothing more and writes one response, with the
\* request's id and one text content block holding the call's result.
C23_ToolCallRoundTrip ==
    [][/\ \A i \in RequestIds \cup {NullId} :
             BridgeReadLine(ObjectLine("tools/call", i, "call")) =>
                 /\ bridge'.pc = "call"
                 /\ bridge'.calls = Append(bridge.calls,
                                           [tool |-> "tool", args |-> "args",
                                            at |-> Len(bridge.out)])
                 /\ bridge'.out = bridge.out
       /\ \A data \in ToolResults :
             BridgeCallReturns(data) =>
                 /\ bridge'.calls = bridge.calls
                 /\ bridge'.pc = "read"
                 /\ bridge'.out =
                       Append(bridge.out,
                              [id |-> LastLine.id, code |-> 0,
                               result |-> [kind |-> "content",
                                           items |-> <<[type |-> "text",
                                                        text |-> data]>>]])]_vars

\* C23 witness: the second line read was a tools/call with id 2; one call was
\* forwarded and the second response carries id 2 and the call's result r1.
C23_Witness ==
    /\ Len(bridge.lines) = 2 /\ Len(bridge.out) = 2 /\ Len(bridge.calls) = 1
    /\ bridge.lines[2] = ObjectLine("tools/call", 2, "call")
    /\ bridge.lines[1].id = 1
    /\ bridge.out[2].id = 2 /\ bridge.out[2].code = 0
    /\ bridge.out[2].result.items = <<[type |-> "text", text |-> "r1"]>>
    /\ bridge.pc = "read"

\* C24: a line that is no JSON makes the bridge write one error response, code
\* -32700 and id null, forward nothing, and read on.
C24_ParseErrorResponse ==
    [][\A k \in {"blank", "garbage"} :
          BridgeReadLine(TextLine(k)) =>
              /\ bridge'.out = Append(bridge.out,
                                      [id |-> NullId, code |-> 0 - 32700,
                                       result |-> NoBody])
              /\ bridge'.calls = bridge.calls
              /\ bridge'.pc = "read"]_vars

\* C24 witness: the first line read was no JSON and was answered with -32700; the
\* bridge then read and answered a second line.
C24_Witness ==
    /\ Len(bridge.lines) = 2 /\ Len(bridge.out) = 2
    /\ bridge.lines[1] = TextLine("garbage")
    /\ bridge.out[1].code = 0 - 32700 /\ bridge.out[1].id = NullId
    /\ bridge.out[2].code = 0

\* C25: a request (a JSON object) with another method than the three known ones,
\* or with none, is answered with code -32601 and its id, and nothing is forwarded;
\* a request whose handling raises (the remote call, or reading its params) is
\* answered with code -32603 and its id; the bridge reads on in each case.
C25_MethodAndInternalErrors ==
    [][/\ \A i \in RequestIds \cup {NullId}, m \in {"frob", "none"} :
             BridgeReadLine(ObjectLine(m, i, "absent")) =>
                 /\ bridge'.out = Append(bridge.out,
                                         [id |-> i, code |-> 0 - 32601, result |-> NoBody])
                 /\ bridge'.calls = bridge.calls
                 /\ bridge'.pc = "read"
       /\ \A i \in RequestIds \cup {NullId} :
             BridgeReadLine(ObjectLine("tools/call", i, "null")) =>
                 /\ bridge'.out = Append(bridge.out,
                                         [id |-> i, code |-> 0 - 32603, result |-> NoBody])
                 /\ bridge'.calls = bridge.calls
                 /\ bridge'.pc = "read"
       /\ (BridgeCallRaises \/ BridgeListRaises) =>
             /\ bridge'.out = Append(bridge.out,
                                     [id |-> LastLine.id, code |-> 0 - 32603,
                                      result |-> NoBody])
             /\ bridge'.pc = "read"]_vars

\* C25 witness: an unknown method with id 1 was answered with -32601, then a
\* tools/call with id 2 whose remote call raised was answered with -32603.
C25_Witness ==
    /\ Len(bridge.out) = 2 /\ Len(bridge.calls) = 1
    /\ bridge.lines[1].method = "frob"
    /\ bridge.out[1].code = 0 - 32601 /\ bridge.out[1].id = 1
    /\ bridge.lines[2].method = "tools/call"
    /\ bridge.out[2].code = 0 - 32603 /\ bridge.out[2].id = 2
    /\ bridge.pc = "read"

\* C26: at most 5 connection attempts; the waits between them are 1, 2, 4 and 8
\* seconds; the bridge exits with status 1 only after the 5th attempt, having
\* waited 4 times; the request loop is entered at most once, and once it has been
\* entered no further connection is attempted and nothing fails.
C26_BoundedRetriesThenOneLoop ==
    /\ bridge.connects <= 5
    /\ Len(bridge.slept) <= 4
    /\ \A k \in DOMAIN bridge.slept : bridge.slept[k] = 2 ^ (k - 1)
    /\ bridge.pc = "failed" =>
          bridge.status = 1 /\ bridge.connects = 5 /\ Len(bridge.slept) = 4
    /\ bridge.loops <= 1
    /\ bridge.loops = 1 => bridge.pc \in {"read", "list", "call", "close", "exited"}

\* C27: when a collect reports the outcome of the task it awaited for a name while
\* another task is tracked under that name, that other task stays tracked.
C27_CollectRemovesAwaitedHandle ==
    [][\A c \in CollIds, n \in Names :
          (/\ Reports(c, n)
           /\ n \in DOMAIN coll'[c].waited
           /\ bg[n] # 0
           /\ bg[n] # coll'[c].waited[n]) => bg'[n] = bg[n]]_vars

\* C28: of the collects that have returned after awaiting the same successfully
\* completed task, exactly one holds the task's success payload for the name; each
\* other holds the error entry for it; and that task is no longer tracked.
C28_SharedTaskCollectedOnce ==
    \A w \in TaskIds, n \in Names :
        LET S == {c \in CollIds : /\ coll[c].st = "returned"
                                  /\ n \in DOMAIN coll[c].waited
                                  /\ coll[c].waited[n] = w}
        IN  (tasks[w].st = "done" /\ tasks[w].result.success /\ S # {}) =>
                /\ Cardinality({c \in S : coll[c].results[n] = tasks[w].result}) = 1
                /\ \A c \in S : coll[c].results[n] # tasks[w].result =>
                                     coll[c].results[n] = FailedEntry(n)
                /\ bg[n] # w

\* C28 witness: two collects have returned after awaiting the same task; one holds
\* its success payload, the other the error entry.
C28_Witness ==
    \E c, d \in CollIds :
        /\ c # d
        /\ coll[c].st = "returned" /\ coll[d].st = "returned"
        /\ <<"a">> \in DOMAIN coll[c].waited /\ <<"a">> \in DOMAIN coll[d].waited
        /\ coll[c].waited[<<"a">>] = coll[d].waited[<<"a">>]
        /\ coll[c].results[<<"a">>].success
        /\ coll[d].results[<<"a">>] = FailedEntry(<<"a">>)
        /\ tasks[coll[c].waited[<<"a">>]].st = "done"

\* C29: when claudy_cleanup(all=True) empties the registry, the connection of every
\* entry it drops has been closed.
C29_CleanupAllClosesAllItDrops ==
    [][\A k \in CleanIds :
          (clean[k].st = "disconnect_all" /\ clean'[k].st = "returned") =>
              \A i \in DOMAIN sessions : conn'[sessions[i].cid] = "closed"]_vars

\* C30: a connect() that raises while a session is created for an absent name
\* leaves the registry and every metadata dict as they were, with no entry for the
\* name; and a call on a name that has no entry, a failed creation behind it,
\* creates a new client and connects it.
C30_FailedConnectLeavesRegistry ==
    [][\A t \in TaskIds :
          /\ (tasks[t].st = "connecting" /\ tasks'[t].st = "raised") =>
                 /\ sessions' = sessions
                 /\ meta' = meta
                 /\ ~Has(sessions', tasks[t].name)
                 /\ conn'[t] = "failed"
          /\ (/\ tasks[t].st = "free" /\ tasks'[t].st # "free"
              /\ \E u \in TaskIds : /\ conn[u] = "failed"
                                     /\ tasks[u].st = "raised"
              /\ ~Has(sessions, tasks'[t].src)) =>
                 /\ tasks'[t].st = "connecting"
                 /\ tasks'[t].name = tasks'[t].src
                 /\ tasks'[t].cid = t
                 /\ conn'[t] = "connecting"
                 /\ sessions' = sessions]_vars

\* C30 witness: a creation failed at connect(), and a later call on the same name
\* created the session with a client of its own.
C30_Witness ==
    \E t, u \in TaskIds :
        /\ t < u
        /\ conn[t] = "failed" /\ tasks[t].st = "raised"
        /\ conn[u] = "open"
        /\ Has(sessions, <<"a">>) /\ Cid(sessions, <<"a">>) = u
        /\ \A i \in DOMAIN sessions : sessions[i].cid # t

\* Whether response is one the loop writes for line: the parse error for text that
\* is no JSON; for a request, its id with the result or error of its method.
Answers(response, line) ==
    IF RaisesJSONDecodeError(line) THEN response = ErrorResponse(NullId, PARSE_ERROR)
    ELSE /\ IsDict(line)
         /\ response.id = line.id
         /\ IF line.method = "initialize"
            THEN response.code = 0 /\ response.result.kind = "initialize"
            ELSE IF line.method = "tools/list"
            THEN \/ response.code = 0 /\ response.result.kind = "tools"
                 \/ response.code = INTERNAL_ERROR
            ELSE IF line.method = "tools/call"
            THEN \/ /\ line.params # "null"
                    /\ response.code = 0 /\ response.result.kind = "content"
                 \/ response.code = INTERNAL_ERROR
            ELSE response.code = METHOD_NOT_FOUND

\* C31: the i-th response written answers the i-th line read; every line read has
\* its response, but for the last one while its remote call is awaited; and a
\* remote call was started only when every earlier line had its response.
C31_OneResponsePerLineInOrder ==
    /\ Len(bridge.out) = IF bridge.pc \in {"list", "call"}
                         THEN Len(bridge.lines) - 1 ELSE Len(bridge.lines)
    /\ \A i \in DOMAIN bridge.out : Answers(bridge.out[i], bridge.lines[i])
    /\ \A k \in DOMAIN bridge.calls :
          /\ bridge.calls[k].at < Len(bridge.lines)
          /\ bridge.lines[bridge.calls[k].at + 1].method = "tools/call"
          /\ Cardinality({i \in 1..(bridge.calls[k].at + 1) :
                             /\ bridge.lines[i].method = "tools/call"
                             /\ bridge.lines[i].params # "null"}) = k

==========================================================================
